---- MODULE Spec2Model ----
(***************************************************************************)
(* The roller of scroll-tech/go-roller (core/roller.go): a worker that     *)
(* dials the coordinator, registers, and then runs two goroutines:         *)
(*   - HandleScroll (intake): reads frames from the websocket and pushes   *)
(*     the block traces it decodes to the Stack (the work queue);          *)
(*   - ProveLoop (drain): pops block traces, proves them and writes the    *)
(*     proof message back on the websocket.                                *)
(* Close may be called by any goroutine.  Every action is one step of one  *)
(* goroutine between two accesses to shared state.                         *)
(***************************************************************************)
EXTENDS Integers, Sequences, FiniteSets, TLC

\* ------------------------------------------------------------ bounds
MaxSessions == 2
MaxQueue == 2
MaxDialFails == 1
MaxCloseCalls == 2

\* ------------------------------------------------------------ values
\* The sessions Dial can return.
Sessions == 1..MaxSessions

\* BlockTraces.ID: the traces the coordinator sends any number of times, and the
\* traces that are followed through the roller, sent once.
OtherID == 7
TrackedID == 8
IDs == {OtherID, TrackedID}
ErrTexts == {"oom"}
Proofs == {"proof"}
ExtClosers == {"ext1", "ext2"}
Closers == ExtClosers \cup {"intake"}

\* types.MsgType
Register == "Register"
BlockTrace == "BlockTrace"
Proof == "Proof"

\* types.ProofMsg.Status
StatusOk == "StatusOk"
StatusProofError == "StatusProofError"

\* A frame as ReadMessage returns it: the message type and the bytes, the bytes
\* given by what the two json.Unmarshal calls of persistTrace make of them.
\*   wf   the bytes are a JSON Msg            Type  its type
\*   pwf  the payload is a JSON BlockTraces   ID    the traces' ID
NoFrame == [mt |-> "none", wf |-> FALSE, Type |-> "none", pwf |-> FALSE, ID |-> 0]
TextFrame == [mt |-> "text", wf |-> FALSE, Type |-> "none", pwf |-> FALSE, ID |-> 0]
GarbageFrame == [mt |-> "binary", wf |-> FALSE, Type |-> "none", pwf |-> FALSE, ID |-> 0]
OtherTypeFrames == {[mt |-> "binary", wf |-> TRUE, Type |-> t, pwf |-> FALSE, ID |-> 0] : t \in {Register, Proof}}
BadPayloadFrame == [mt |-> "binary", wf |-> TRUE, Type |-> BlockTrace, pwf |-> FALSE, ID |-> 0]
TraceFrame(id) == [mt |-> "binary", wf |-> TRUE, Type |-> BlockTrace, pwf |-> TRUE, ID |-> id]

VARIABLES
  mainpc,      \* the main goroutine before the loops: NewRoller, Run, Loops, Fatal
  panicked,    \* a goroutine panicked (close of a closed channel): the process is gone
  ipc,         \* HandleScroll goroutine: idle, top, read, persist, dial, register, close, closing, done
  imsg,        \* handMessage's (mt, msg)
  retry,       \* the current run of mustRetryScroll: dials, failures, sleeps, swaps, registrations
  dpc,         \* ProveLoop: idle, top, pop, prove, write, done
  ditem,       \* prove's traces.ID (0: none)
  dout,        \* prove's (proof, err) as the prover returned them
  derr,        \* ProveLoop's err
  cpc,         \* per caller of Close: idle, store, conn, stack
  isClosed,    \* Roller.isClosed
  stopClosed,  \* stopChan has been closed
  closes,      \* how often the stop channel, a session and the stack were closed
  closeCalls,  \* external calls of Close so far
  conn,        \* Roller.conn, the session it points to
  connPrev,    \* the value of Roller.conn before its last write (what a racing read may see)
  nextSess,    \* the next session Dial returns
  closedSess,  \* sessions closed by conn.Close()
  regOn,       \* sessions on which a Register frame was written
  stack,       \* the Stack's content (IDs), oldest first
  stackClosed, \* Stack.Close() was called
  sent,        \* the frames prove handed to WriteMessage for the traces it holds
  wdl,         \* sessions whose write deadline was set and no frame written on them since
  rdl,         \* sessions whose read deadline was set and no read made on them since
  obs          \* what has happened so far: the startup's failure, the followed trace's pops and sends

lifeVars == <<mainpc, panicked>>
intakeVars == <<ipc, imsg, retry>>
drainVars == <<dpc, ditem, dout, derr, sent>>
closeVars == <<cpc, isClosed, stopClosed, closes, closeCalls>>
sessVars == <<conn, connPrev, nextSess, closedSess, regOn>>
stackVars == <<stack, stackClosed>>
dlVars == <<wdl, rdl>>
vars == <<lifeVars, intakeVars, drainVars, closeVars, sessVars, stackVars, dlVars, obs>>

\* encoding/json: Marshal wraps a value into bytes, Unmarshal takes it out again.
Marshal(v) == [json |-> v]
Unmarshal(b) == b.json

\* MakeMsgByt: the payload is marshalled, put into a Msg with its type, and the Msg is marshalled.
MakeMsgByt(msgTyp, payloadVal) == Marshal([Type |-> msgTyp, Payload |-> Marshal(payloadVal)])

NoOut == [ok |-> FALSE, proof |-> "", err |-> ""]
NoRetry == [attempts |-> 0, fails |-> 0, sleeps |-> 0, swaps |-> 0, regs |-> 0]
\* trkUsed: the followed trace was sent, or no trace is followed.
NoObs == [startErr |-> "none", trkUsed |-> TRUE, trkPops |-> 0, trkSends |-> 0]

\* prover.Prove's possible results.
ProveOutcomes ==
  {[ok |-> TRUE, proof |-> p, err |-> ""] : p \in Proofs}
    \cup {[ok |-> FALSE, proof |-> "", err |-> e] : e \in ErrTexts}

\* prove as it would be if the prover's error were not put into the ProofMsg.
BuildProofMsgNoError(id, out) ==
  [Status |-> IF out.ok THEN StatusOk ELSE StatusProofError, Error |-> "", ID |-> id, Proof |-> out.proof]

\* The ProofMsg prove builds from the popped traces' ID and the prover's result.
BuildProofMsg(id, out) ==
  IF out.ok
  THEN [Status |-> StatusOk, Error |-> "", ID |-> id, Proof |-> out.proof]
  ELSE [Status |-> StatusProofError, Error |-> out.err, ID |-> id, Proof |-> ""]

\* What a goroutine other than the one that assigns Roller.conn may read from it:
\* the read is not synchronised with the assignment in mustRetryScroll.
ReadConn == {conn, connPrev}

\* The session was closed by this process: a read or a write on it fails, with
\* "use of closed network connection" in the error's text.
NormalClose(s) == s \in closedSess

\* store.Stack, by its contract as the work queue: Push adds an item, Pop takes
\* the oldest one out.
StackPush(st, x) == Append(st, x)
StackTop(st) == Head(st)
StackPop(st) == Tail(st)

Min(a, b) == IF a < b THEN a ELSE b

Init ==
  /\ mainpc = "NewRoller"
  /\ panicked = FALSE
  /\ ipc = "idle"
  /\ imsg = NoFrame
  /\ retry = NoRetry
  /\ dpc = "idle"
  /\ ditem = 0
  /\ dout = NoOut
  /\ derr = "nil"
  /\ sent = <<>>
  /\ cpc = [c \in Closers |-> "idle"]
  /\ isClosed = 0
  /\ stopClosed = FALSE
  /\ closes = [stop |-> 0, conn |-> 0, stack |-> 0]
  /\ closeCalls = 0
  /\ conn = 0
  /\ connPrev = 0
  /\ nextSess = 1
  /\ closedSess = {}
  /\ regOn = {}
  /\ stack = <<>>
  /\ stackClosed = FALSE
  /\ wdl = {}
  /\ rdl = {}
  /\ obs = NoObs

\* The same state, with a trace that is followed through the roller.
LiveInit ==
  /\ mainpc = "NewRoller"
  /\ panicked = FALSE
  /\ ipc = "idle"
  /\ imsg = NoFrame
  /\ retry = NoRetry
  /\ dpc = "idle"
  /\ ditem = 0
  /\ dout = NoOut
  /\ derr = "nil"
  /\ sent = <<>>
  /\ cpc = [c \in Closers |-> "idle"]
  /\ isClosed = 0
  /\ stopClosed = FALSE
  /\ closes = [stop |-> 0, conn |-> 0, stack |-> 0]
  /\ closeCalls = 0
  /\ conn = 0
  /\ connPrev = 0
  /\ nextSess = 1
  /\ closedSess = {}
  /\ regOn = {}
  /\ stack = <<>>
  /\ stackClosed = FALSE
  /\ wdl = {}
  /\ rdl = {}
  /\ obs = [NoObs EXCEPT !.trkUsed = FALSE]

\* The process runs: no goroutine has panicked, log.Crit has not ended it.
Alive == ~panicked /\ mainpc # "Fatal"

\* ------------------------------------------------------------ startup
\* NewRoller: the stack, the prover and the first dial; each failure is returned.
NewRoller ==
  /\ Alive
  /\ mainpc = "NewRoller"
  /\ \E out \in {"ok", "stack", "prover", "dial"} :
       IF out = "ok"
       THEN /\ mainpc' = "Run"
            /\ conn' = nextSess
            /\ connPrev' = nextSess
            /\ nextSess' = nextSess + 1
            /\ obs' = obs
       ELSE /\ mainpc' = "Fatal"
            /\ obs' = [obs EXCEPT !.startErr = out]
            /\ UNCHANGED <<conn, connPrev, nextSess>>
  /\ UNCHANGED <<panicked, intakeVars, drainVars, closeVars, closedSess, regOn, stackVars>>
  /\ UNCHANGED dlVars

\* Run as it would be if it only logged a failed Register.
RunIgnoresRegister ==
  /\ Alive
  /\ mainpc = "Run"
  /\ mainpc' = "Loops"
  /\ ipc' = "top"
  /\ dpc' = "top"
  /\ \/ ~NormalClose(conn) /\ regOn' = regOn \cup {conn}
     \/ regOn' = regOn
  /\ UNCHANGED <<panicked, imsg, retry, ditem, dout, derr, sent, closeVars,
                 conn, connPrev, nextSess, closedSess, stackVars, obs>>
  /\ wdl' = wdl \ {conn}
  /\ rdl' = rdl

\* Run: Register on the first session; log.Crit ends the process when it fails.
\* Then the HandleScroll goroutine is started and ProveLoop runs.
Run ==
  /\ Alive
  /\ mainpc = "Run"
  /\ \/ /\ ~NormalClose(conn)
        /\ mainpc' = "Loops"
        /\ regOn' = regOn \cup {conn}
        /\ ipc' = "top"
        /\ dpc' = "top"
        /\ obs' = obs
     \/ /\ mainpc' = "Fatal"
        /\ obs' = [obs EXCEPT !.startErr = "register"]
        /\ UNCHANGED <<regOn, ipc, dpc>>
  /\ UNCHANGED <<panicked, imsg, retry, ditem, dout, derr, sent, closeVars,
                 conn, connPrev, nextSess, closedSess, stackVars>>
  /\ wdl' = wdl \ {conn}
  /\ rdl' = rdl

\* ------------------------------------------------------------ intake (HandleScroll)
\* The model can still dial a fresh session.
CanDial == nextSess <= MaxSessions

\* Frames the coordinator may deliver now.  A frame whose handling ends in
\* mustRetryScroll is delivered only while a fresh session can still be dialed, a
\* trace only while the stack holds fewer than MaxQueue items, and the followed
\* trace only once.
Frames ==
  {TextFrame} \cup OtherTypeFrames
    \cup (IF CanDial THEN {GarbageFrame, BadPayloadFrame} ELSE {})
    \cup (IF Len(stack) < MaxQueue
          THEN {TraceFrame(id) : id \in {i \in IDs : i = TrackedID => ~obs.trkUsed}}
          ELSE {})

\* The loop's select on stopChan, and in the default case the two deadlines.
IntakeSelect ==
  /\ Alive
  /\ ipc = "top"
  /\ ipc' = IF stopClosed THEN "close" ELSE "read"
  /\ imsg' = NoFrame
  /\ retry' = NoRetry
  /\ UNCHANGED <<lifeVars, drainVars, closeVars, sessVars, stackVars, obs>>
  /\ wdl' = IF stopClosed THEN wdl ELSE wdl \cup {conn}
  /\ rdl' = IF stopClosed THEN rdl ELSE rdl \cup {conn}

\* HandleScroll as it would be if it did not tell errNormalClose from other errors.
IntakeReadClosedRetries ==
  /\ Alive
  /\ ipc = "read"
  /\ NormalClose(conn)
  /\ ipc' = "dial"
  /\ UNCHANGED <<lifeVars, imsg, retry, drainVars, closeVars, sessVars, stackVars, obs>>
  /\ rdl' = rdl \ {conn}
  /\ wdl' = wdl

\* handMessage, ReadMessage failing on a session this process closed: the error
\* contains errNormalClose, HandleScroll goes round the loop.
IntakeReadClosed ==
  /\ Alive
  /\ ipc = "read"
  /\ NormalClose(conn)
  /\ ipc' = "top"
  /\ UNCHANGED <<lifeVars, imsg, retry, drainVars, closeVars, sessVars, stackVars, obs>>
  /\ rdl' = rdl \ {conn}
  /\ wdl' = wdl

\* handMessage, ReadMessage failing with another error: mustRetryScroll is entered.
IntakeReadErr ==
  /\ Alive
  /\ ipc = "read"
  /\ ~NormalClose(conn)
  /\ CanDial
  /\ ipc' = "dial"
  /\ imsg' = NoFrame
  /\ UNCHANGED <<lifeVars, retry, drainVars, closeVars, sessVars, stackVars, obs>>
  /\ rdl' = rdl \ {conn}
  /\ wdl' = wdl

\* handMessage, ReadMessage returning a frame: a binary one goes to persistTrace,
\* any other is dropped and handMessage returns nil.
IntakeReadFrame ==
  /\ Alive
  /\ ipc = "read"
  /\ ~NormalClose(conn)
  /\ \E f \in Frames :
       /\ imsg' = f
       /\ ipc' = IF f.mt = "binary" THEN "persist" ELSE "top"
       /\ obs' = [obs EXCEPT !.trkUsed = @ \/ (f.ID = TrackedID)]
  /\ UNCHANGED <<lifeVars, retry, drainVars, closeVars, sessVars, stackVars>>
  /\ rdl' = rdl \ {conn}
  /\ wdl' = wdl

\* persistTrace as it would be if it pushed before it looked at the errors.
PersistDecodeErrPushes ==
  /\ Alive
  /\ ipc = "persist"
  /\ \/ ~imsg.wf
     \/ imsg.wf /\ imsg.Type = BlockTrace /\ ~imsg.pwf
  /\ ipc' = "dial"
  /\ imsg' = NoFrame
  /\ UNCHANGED <<lifeVars, retry, drainVars, closeVars, sessVars, stackClosed, obs>>
  /\ UNCHANGED dlVars
  /\ stack' = StackPush(stack, imsg.ID)

\* persistTrace returning an error that is not errNormalClose (the Msg or the
\* BlockTraces does not unmarshal): HandleScroll enters mustRetryScroll.
PersistDecodeErr ==
  /\ Alive
  /\ ipc = "persist"
  /\ \/ ~imsg.wf
     \/ imsg.wf /\ imsg.Type = BlockTrace /\ ~imsg.pwf
  /\ ipc' = "dial"
  /\ imsg' = NoFrame
  /\ UNCHANGED <<lifeVars, retry, drainVars, closeVars, sessVars, stackVars, obs>>
  /\ UNCHANGED dlVars

\* persistTrace as it would be if it returned an error for a type that is not BlockTrace.
PersistIllegalIsError ==
  /\ Alive
  /\ ipc = "persist"
  /\ imsg.wf
  /\ imsg.Type # BlockTrace
  /\ CanDial
  /\ ipc' = "dial"
  /\ UNCHANGED <<lifeVars, imsg, retry, drainVars, closeVars, sessVars, stackVars, obs>>
  /\ UNCHANGED dlVars

\* persistTrace on a Msg whose type is not BlockTrace: logged, nil returned.
PersistIllegal ==
  /\ Alive
  /\ ipc = "persist"
  /\ imsg.wf
  /\ imsg.Type # BlockTrace
  /\ ipc' = "top"
  /\ UNCHANGED <<lifeVars, imsg, retry, drainVars, closeVars, sessVars, stackVars, obs>>
  /\ UNCHANGED dlVars

\* persistTrace pushing the decoded traces.
PersistPush ==
  /\ Alive
  /\ ipc = "persist"
  /\ imsg.wf
  /\ imsg.Type = BlockTrace
  /\ imsg.pwf
  /\ ~stackClosed
  /\ stack' = StackPush(stack, imsg.ID)
  /\ ipc' = "top"
  /\ UNCHANGED <<lifeVars, imsg, retry, drainVars, closeVars, sessVars, stackClosed, obs>>
  /\ UNCHANGED dlVars

\* persistTrace, Push failing (always on a closed stack): mustRetryScroll is entered.
PersistPushErr ==
  /\ Alive
  /\ ipc = "persist"
  /\ imsg.wf
  /\ imsg.Type = BlockTrace
  /\ imsg.pwf
  /\ stackClosed \/ CanDial
  /\ ipc' = "dial"
  /\ imsg' = NoFrame
  /\ UNCHANGED <<lifeVars, retry, drainVars, closeVars, sessVars, stackVars, obs>>
  /\ UNCHANGED dlVars

\* mustRetryScroll as it would be if it dialed again at once.
DialFailNoSleep ==
  /\ Alive
  /\ ipc = "dial"
  /\ retry.fails < MaxDialFails
  /\ retry' = [retry EXCEPT !.attempts = @ + 1, !.fails = @ + 1]
  /\ UNCHANGED <<lifeVars, ipc, imsg, drainVars, closeVars, sessVars, stackVars, obs>>
  /\ UNCHANGED dlVars

\* mustRetryScroll, first loop: Dial fails, the goroutine sleeps retryWait.
DialFail ==
  /\ Alive
  /\ ipc = "dial"
  /\ retry.fails < MaxDialFails
  /\ retry' = [retry EXCEPT !.attempts = @ + 1, !.fails = @ + 1, !.sleeps = @ + 1]
  /\ UNCHANGED <<lifeVars, ipc, imsg, drainVars, closeVars, sessVars, stackVars, obs>>
  /\ UNCHANGED dlVars

\* mustRetryScroll, first loop: Dial succeeds and Roller.conn is assigned.  The
\* deadlines of a session that no goroutine can read from Roller.conn any more
\* are forgotten.
DialOk ==
  /\ Alive
  /\ ipc = "dial"
  /\ CanDial
  /\ conn' = nextSess
  /\ connPrev' = conn
  /\ nextSess' = nextSess + 1
  /\ retry' = [retry EXCEPT !.attempts = @ + 1, !.swaps = @ + 1]
  /\ ipc' = "register"
  /\ UNCHANGED <<lifeVars, imsg, drainVars, closeVars, closedSess, regOn, stackVars, obs>>
  /\ wdl' = wdl \cap {conn}
  /\ rdl' = rdl \cap {conn}

\* mustRetryScroll as it would be without its second loop: HandleScroll
\* continues although Register failed.
RegisterFailGivesUp ==
  /\ Alive
  /\ ipc = "register"
  /\ ipc' = "top"
  /\ UNCHANGED <<lifeVars, imsg, retry, drainVars, closeVars, sessVars, stackVars, obs>>
  /\ UNCHANGED dlVars

\* mustRetryScroll, second loop: Register fails (always on a session this process
\* closed), the goroutine sleeps retryWait and the loop goes round.
RegisterFail ==
  /\ Alive
  /\ ipc = "register"
  /\ UNCHANGED vars

\* mustRetryScroll, second loop: Register succeeds; HandleScroll continues.
RegisterOk ==
  /\ Alive
  /\ ipc = "register"
  /\ ~NormalClose(conn)
  /\ regOn' = regOn \cup {conn}
  /\ retry' = [retry EXCEPT !.regs = @ + 1]
  /\ ipc' = "top"
  /\ UNCHANGED <<lifeVars, imsg, drainVars, closeVars, conn, connPrev, nextSess, closedSess, stackVars, obs>>
  /\ wdl' = wdl \ {conn}
  /\ rdl' = rdl

\* HandleScroll's steps on a session that is open.
IntakeRun ==
  \/ IntakeSelect
  \/ IntakeReadErr
  \/ IntakeReadFrame
  \/ PersistDecodeErr
  \/ PersistIllegal
  \/ PersistPush
  \/ PersistPushErr
  \/ DialFail
  \/ DialOk
  \/ RegisterFail
  \/ RegisterOk

IntakeNext ==
  \/ IntakeRun
  \/ IntakeReadClosed

\* ------------------------------------------------------------ drain (ProveLoop)
\* The loop's select on stopChan (return nil), and in the default case the write
\* deadline.  prove's variables and err hold nothing the next iteration reads.
DrainSelect ==
  /\ Alive
  /\ dpc = "top"
  /\ IF stopClosed
     THEN dpc' = "done" /\ derr' = "nil" /\ UNCHANGED <<ditem, dout, sent, wdl>>
     ELSE /\ dpc' = "pop" /\ derr' = "nil" /\ ditem' = 0 /\ dout' = NoOut /\ sent' = <<>>
          /\ \E s \in ReadConn : wdl' = wdl \cup {s}
  /\ rdl' = rdl
  /\ UNCHANGED <<lifeVars, intakeVars, closeVars, sessVars, stackVars, obs>>

\* ProveLoop as it would be if it returned store.ErrEmpty like any other error.
DrainPopEmptyReturns ==
  /\ Alive
  /\ dpc = "pop"
  /\ ~stackClosed
  /\ stack = <<>>
  /\ derr' = "ErrEmpty"
  /\ dpc' = "done"
  /\ UNCHANGED <<lifeVars, intakeVars, ditem, dout, sent, closeVars, sessVars, stackVars, obs>>
  /\ UNCHANGED dlVars

\* prove, Pop returning store.ErrEmpty: ProveLoop sleeps three seconds and continues.
DrainPopEmpty ==
  /\ Alive
  /\ dpc = "pop"
  /\ ~stackClosed
  /\ stack = <<>>
  /\ derr' = "ErrEmpty"
  /\ dpc' = "top"
  /\ UNCHANGED <<lifeVars, intakeVars, ditem, dout, sent, closeVars, sessVars, stackVars, obs>>
  /\ UNCHANGED dlVars

\* prove, Pop returning another error (always on a closed stack): logged, the loop continues.
DrainPopErr ==
  /\ Alive
  /\ dpc = "pop"
  /\ derr' = "popErr"
  /\ dpc' = "top"
  /\ UNCHANGED <<lifeVars, intakeVars, ditem, dout, sent, closeVars, sessVars, stackVars, obs>>
  /\ UNCHANGED dlVars

\* prove, Pop returning the oldest traces.
DrainPopOk ==
  /\ Alive
  /\ dpc = "pop"
  /\ ~stackClosed
  /\ stack # <<>>
  /\ ditem' = StackTop(stack)
  /\ stack' = StackPop(stack)
  /\ dpc' = "prove"
  /\ obs' = [obs EXCEPT !.trkPops = IF StackTop(stack) = TrackedID THEN Min(@ + 1, 2) ELSE @]
  /\ UNCHANGED <<lifeVars, intakeVars, dout, derr, sent, closeVars, sessVars, stackClosed>>
  /\ UNCHANGED dlVars

\* prove, the prover's call.
DrainProve ==
  /\ Alive
  /\ dpc = "prove"
  /\ \E out \in ProveOutcomes : dout' = out
  /\ dpc' = "write"
  /\ UNCHANGED <<lifeVars, intakeVars, ditem, derr, sent, closeVars, sessVars, stackVars, obs>>
  /\ UNCHANGED dlVars

\* ProveLoop as it would be if it returned on every error of WriteMessage.
AfterWriteReturns(res) ==
  IF res # "nil"
  THEN dpc' = "done" /\ derr' = res
  ELSE dpc' = "top" /\ derr' = res

\* What ProveLoop does with the error prove returns from WriteMessage: return nil
\* on errNormalClose, else log it (when there is one) and go round the loop.
AfterWrite(res) ==
  IF res = "normalClose"
  THEN dpc' = "done" /\ derr' = "nil"
  ELSE dpc' = "top" /\ derr' = res

\* prove as it would be if it pushed the traces back when WriteMessage failed.
DrainWriteRequeues ==
  /\ Alive
  /\ dpc = "write"
  /\ \E s \in ReadConn :
       \E res \in (IF NormalClose(s) THEN {"normalClose", "writeErr"} ELSE {"nil", "writeErr"}) :
         /\ sent' = Append(sent, [byt |-> MakeMsgByt(Proof, BuildProofMsg(ditem, dout)),
                                  on |-> s, res |-> res])
         /\ AfterWrite(res)
         /\ stack' = IF res = "writeErr" THEN <<ditem>> \o stack ELSE stack
         /\ wdl' = wdl \ {s}
  /\ rdl' = rdl
  /\ obs' = [obs EXCEPT !.trkSends = IF ditem = TrackedID THEN Min(@ + 1, 2) ELSE @]
  /\ UNCHANGED <<lifeVars, intakeVars, ditem, dout, closeVars, sessVars, stackClosed>>

\* prove, the ProofMsg, MakeMsgByt and WriteMessage on the session read from Roller.conn.
DrainWrite ==
  /\ Alive
  /\ dpc = "write"
  /\ \E s \in ReadConn :
       \E res \in (IF NormalClose(s) THEN {"normalClose", "writeErr"} ELSE {"nil", "writeErr"}) :
         /\ sent' = Append(sent, [byt |-> MakeMsgByt(Proof, BuildProofMsg(ditem, dout)),
                                  on |-> s, res |-> res])
         /\ AfterWrite(res)
         /\ wdl' = wdl \ {s}
  /\ rdl' = rdl
  /\ obs' = [obs EXCEPT !.trkSends = IF ditem = TrackedID THEN Min(@ + 1, 2) ELSE @]
  /\ UNCHANGED <<lifeVars, intakeVars, ditem, dout, closeVars, sessVars, stackVars>>

DrainNext ==
  \/ DrainSelect
  \/ DrainPopEmpty
  \/ DrainPopErr
  \/ DrainPopOk
  \/ DrainProve
  \/ DrainWrite

\* ------------------------------------------------------------ Close
\* Close as it would be without the guard on isClosed.
CloseCallNoGuard(c) ==
  /\ Alive
  /\ cpc[c] = "idle"
  /\ mainpc \in {"Run", "Loops"}
  /\ closeCalls < MaxCloseCalls
  /\ closeCalls' = closeCalls + 1
  /\ cpc' = [cpc EXCEPT ![c] = "store"]
  /\ UNCHANGED <<lifeVars, intakeVars, drainVars, isClosed, stopClosed, closes, sessVars, stackVars, obs>>
  /\ UNCHANGED dlVars

\* Close is called from outside, once the Roller exists: the guard
\* atomic.LoadInt64(&r.isClosed) == 1 returns at once.
CloseCall(c) ==
  /\ Alive
  /\ cpc[c] = "idle"
  /\ mainpc \in {"Run", "Loops"}
  /\ closeCalls < MaxCloseCalls
  /\ closeCalls' = closeCalls + 1
  /\ cpc' = [cpc EXCEPT ![c] = IF isClosed = 1 THEN "idle" ELSE "store"]
  /\ UNCHANGED <<lifeVars, intakeVars, drainVars, isClosed, stopClosed, closes, sessVars, stackVars, obs>>
  /\ UNCHANGED dlVars

\* Close is called by the goroutine of Run after HandleScroll has returned; the
\* goroutine ends when Close returns.
IntakeClose ==
  /\ Alive
  /\ ipc = "close"
  /\ cpc["intake"] = "idle"
  /\ IF isClosed = 1
     THEN ipc' = "done" /\ cpc' = cpc
     ELSE ipc' = "closing" /\ cpc' = [cpc EXCEPT !["intake"] = "store"]
  /\ UNCHANGED <<lifeVars, imsg, retry, drainVars, isClosed, stopClosed, closes, closeCalls,
                 sessVars, stackVars, obs>>
  /\ UNCHANGED dlVars

\* atomic.StoreInt64(&r.isClosed, 1) and close(r.stopChan); closing a closed
\* channel panics.  Nothing but the guard of Close reads isClosed.
CloseStop(c) ==
  /\ Alive
  /\ cpc[c] = "store"
  /\ isClosed' = 1
  /\ stopClosed' = TRUE
  /\ panicked' = stopClosed
  /\ closes' = [closes EXCEPT !.stop = @ + 1]
  /\ cpc' = [cpc EXCEPT ![c] = "conn"]
  /\ UNCHANGED <<mainpc, intakeVars, drainVars, closeCalls, sessVars, stackVars, obs>>
  /\ UNCHANGED dlVars

\* Close as it would be if it cleared Roller.conn after closing the session.
CloseConnClears(c) ==
  /\ Alive
  /\ cpc[c] = "conn"
  /\ \E s \in (IF c = "intake" THEN {conn} ELSE ReadConn) :
       closedSess' = closedSess \cup {s}
  /\ conn' = 0
  /\ connPrev' = conn
  /\ closes' = [closes EXCEPT !.conn = @ + 1]
  /\ cpc' = [cpc EXCEPT ![c] = "stack"]
  /\ UNCHANGED <<lifeVars, intakeVars, drainVars, isClosed, stopClosed, closeCalls,
                 nextSess, regOn, stackVars, obs>>
  /\ UNCHANGED dlVars

\* r.conn.Close(), on the session read from Roller.conn.
CloseConn(c) ==
  /\ Alive
  /\ cpc[c] = "conn"
  /\ \E s \in (IF c = "intake" THEN {conn} ELSE ReadConn) :
       closedSess' = closedSess \cup {s}
  /\ closes' = [closes EXCEPT !.conn = @ + 1]
  /\ cpc' = [cpc EXCEPT ![c] = "stack"]
  /\ UNCHANGED <<lifeVars, intakeVars, drainVars, isClosed, stopClosed, closeCalls,
                 conn, connPrev, nextSess, regOn, stackVars, obs>>
  /\ UNCHANGED dlVars

\* r.stack.Close(); its error is logged.  Close returns.
CloseStack(c) ==
  /\ Alive
  /\ cpc[c] = "stack"
  /\ stackClosed' = TRUE
  /\ closes' = [closes EXCEPT !.stack = @ + 1]
  /\ cpc' = [cpc EXCEPT ![c] = "idle"]
  /\ ipc' = IF c = "intake" THEN "done" ELSE ipc
  /\ UNCHANGED <<lifeVars, imsg, retry, drainVars, isClosed, stopClosed, closeCalls, sessVars, stack, obs>>
  /\ UNCHANGED dlVars

CloseNext ==
  \/ \E c \in Closers : CloseStop(c)
  \/ \E c \in Closers : CloseConn(c)
  \/ \E c \in Closers : CloseStack(c)

\* The program with one goroutine outside that calls Close, any number of times.
Next ==
  \/ NewRoller
  \/ Run
  \/ IntakeNext
  \/ DrainNext
  \/ CloseCall("ext1")
  \/ IntakeClose
  \/ CloseNext

Spec == Init /\ [][Next]_vars

\* The goroutines are scheduled again and again, a blocking call returns, and the
\* Stack does not fail every Pop.
Fairness ==
  /\ WF_vars(IntakeNext)
  /\ WF_vars(DrainNext)
  /\ SF_vars(DrainPopOk)

FairSpec == Spec /\ Fairness

\* The program while nobody calls Close.
LiveNext ==
  \/ NewRoller
  \/ Run
  \/ IntakeRun
  \/ DrainNext

LiveSpec == LiveInit /\ [][LiveNext]_vars /\ WF_vars(DrainNext) /\ SF_vars(DrainPopOk)

\* The program with two goroutines outside that call Close, so that calls of
\* Close can overlap.
RaceNext ==
  \/ Next
  \/ CloseCall("ext2")

RaceSpec == Init /\ [][RaceNext]_vars

\* ------------------------------------------------------------ claims
\* C1: Close is idempotent.  With the calls of Close one after another, the stop
\* channel, the session and the stack are each closed at most once, exactly once
\* when a call has returned after passing the guard, and a call that starts after
\* an earlier one changes nothing.
CloseIdempotent ==
  /\ [](/\ closes.stop <= 1 /\ closes.conn <= 1 /\ closes.stack <= 1
        /\ (closeCalls >= 1 /\ cpc["ext1"] = "idle")
              => (closes = [stop |-> 1, conn |-> 1, stack |-> 1] /\ stopClosed /\ stackClosed))
  /\ [][(closeCalls >= 1 /\ closeCalls' = closeCalls + 1)
          => UNCHANGED <<cpc, isClosed, stopClosed, closes, sessVars, stackVars, intakeVars, drainVars>>]_vars
  /\ [][(ipc = "close" /\ ipc' # ipc)
          => (ipc' = "done" /\ UNCHANGED <<cpc, isClosed, stopClosed, closes, sessVars, stackVars, drainVars>>)]_vars

\* C1's case: Close was called twice from outside and once by the goroutine of Run.
CloseIdempotentWitness ==
  /\ closeCalls >= 2
  /\ ipc = "done"
  /\ \A c \in Closers : cpc[c] = "idle"
  /\ closes = [stop |-> 1, conn |-> 1, stack |-> 1]

\* C3: for the traces prove popped, exactly one Proof frame is handed to
\* WriteMessage; it carries the traces' ID and either StatusOk, the proof and no
\* error, or StatusProofError, the prover's error text and no proof.  ProveLoop
\* ends only after the stop channel was closed, never because the prover failed.
ResultComplete ==
  /\ dpc \in {"prove", "write"} => sent = <<>>
  /\ (ditem # 0 /\ dpc \in {"top", "done"}) =>
       /\ Len(sent) = 1
       /\ LET msg == Unmarshal(sent[1].byt)
              p == Unmarshal(msg.Payload)
          IN /\ msg.Type = Proof
             /\ p.ID = ditem
             /\ dout.ok => (p.Status = StatusOk /\ p.Proof = dout.proof /\ p.Error = "")
             /\ ~dout.ok => (p.Status = StatusProofError /\ p.Error = dout.err /\ p.Proof = "")
  /\ ditem = 0 => sent = <<>>
  /\ dpc = "done" => stopClosed

\* C3's case: the prover failed with "oom" on traces 7, the frame was written and the loop goes on.
ResultCompleteWitness ==
  /\ dpc = "top"
  /\ ditem = 7
  /\ dout = [ok |-> FALSE, proof |-> "", err |-> "oom"]
  /\ Len(sent) = 1
  /\ Unmarshal(Unmarshal(sent[1].byt).Payload) = [Status |-> StatusProofError, Error |-> "oom", ID |-> 7, Proof |-> ""]

\* C4: after a Pop that returned store.ErrEmpty ProveLoop is at the top of its
\* loop again: it has not returned, nothing was handed to WriteMessage, and the
\* next iteration can start.
EmptyPopContinues ==
  derr = "ErrEmpty" => (dpc = "top" /\ ditem = 0 /\ sent = <<>> /\ ENABLED DrainSelect)

\* C4's case: a Pop returned store.ErrEmpty on the open, empty stack.
EmptyPopWitness ==
  derr = "ErrEmpty" /\ dpc = "top" /\ ~stopClosed /\ stack = <<>>

\* C5: the step of HandleScroll that handles a well-formed Msg whose type is not
\* BlockTrace ends at the top of the loop and changes neither the stack nor the
\* session nor anything of mustRetryScroll; the loop's next iteration can start.
IllegalTypeDropped ==
  [][(ipc = "persist" /\ imsg.wf /\ imsg.Type # BlockTrace /\ ipc' # ipc)
       => (ipc' = "top" /\ UNCHANGED <<stackVars, sessVars, retry>> /\ (ENABLED IntakeSelect)')]_vars

\* C5's case: a Msg of another type was handled and the loop is at its top.
IllegalTypeWitness ==
  ipc = "top" /\ imsg.mt = "binary" /\ imsg.wf /\ imsg.Type = Register /\ ~stopClosed

\* C7: in a run of mustRetryScroll whose k-th Dial succeeds there are k Dials,
\* k-1 failures each followed by one sleep, one assignment to Roller.conn, and,
\* before HandleScroll continues, one Register that succeeds, on the new session.
ReconnectConverges ==
  /\ ipc = "dial" => (retry.attempts = retry.fails /\ retry.sleeps = retry.fails
                      /\ retry.swaps = 0 /\ retry.regs = 0)
  /\ ipc = "register" => (retry.attempts = retry.fails + 1 /\ retry.sleeps = retry.fails
                          /\ retry.swaps = 1 /\ retry.regs = 0 /\ conn = nextSess - 1)
  /\ (ipc = "top" /\ retry.attempts > 0) =>
        (retry.attempts = retry.fails + 1 /\ retry.sleeps = retry.fails
         /\ retry.swaps = 1 /\ retry.regs = 1 /\ conn = nextSess - 1 /\ conn \in regOn)
  /\ ipc \notin {"dial", "register", "top"} => retry = NoRetry

\* C7's case: the second Dial succeeded and the run is over.
ReconnectConvergesWitness ==
  ipc = "top" /\ retry.attempts = 2 /\ retry.fails = 1 /\ retry.regs = 1

\* C8: the loops run only after Register was written on the first session, and
\* after a failure of NewRoller or of the first Register nothing is started.
StartupOrder ==
  /\ (ipc # "idle" \/ dpc # "idle") => (mainpc = "Loops" /\ 1 \in regOn)
  /\ mainpc \in {"NewRoller", "Run", "Fatal"} => (ipc = "idle" /\ dpc = "idle" /\ stack = <<>>)
  /\ mainpc = "Fatal" <=> obs.startErr # "none"

\* C8's case: both loops run, the one in its read and the other in its Pop.
StartupOrderWitness ==
  mainpc = "Loops" /\ ipc = "read" /\ dpc = "pop" /\ regOn = {1} /\ conn = 1

ReconnectAlwaysResumes ==
  [][(ipc = "top" /\ retry.regs > 0 /\ ipc' # ipc) => ipc' = "read"]_vars

\* C6, amended: a failed read that is not a normal close takes HandleScroll into
\* mustRetryScroll, which dials until a new session is assigned and then
\* registers on it; after that HandleScroll goes on to its next read unless the
\* stop channel has been closed meanwhile, in which case it returns.  Unless the
\* stop channel is closed, the next read on a new, registered session comes.
ReconnectResumesUnlessStopped ==
  /\ [][(ipc = "read" /\ ~NormalClose(conn) /\ ipc' # ipc) => ipc' \in {"top", "persist", "dial"}]_vars
  /\ [][(ipc = "dial" /\ ipc' # ipc) => (ipc' = "register" /\ conn' = nextSess /\ conn' # conn)]_vars
  /\ [][(ipc = "register" /\ ipc' # ipc) => (ipc' = "top" /\ conn' = conn /\ conn \in regOn')]_vars
  /\ [][(ipc = "top" /\ retry.regs > 0 /\ ipc' # ipc) => (ipc' = "read" \/ stopClosed)]_vars
  /\ \A s \in Sessions :
       (ipc = "dial" /\ conn = s) ~> ((ipc = "read" /\ conn # s /\ conn \in regOn) \/ stopClosed)

\* C6's case: HandleScroll is in its read on the session dialed and registered
\* by mustRetryScroll.
ReconnectResumesWitness ==
  ipc = "read" /\ conn = 2 /\ regOn = {1, 2} /\ ~stopClosed

\* C9: a WriteMessage that fails with errNormalClose ends ProveLoop with nil; a
\* read on a session this process closed takes HandleScroll to the top of its
\* loop with the stop channel closed, from where it returns; neither step dials,
\* registers or assigns the session.
NormalCloseStops ==
  /\ [](\A i \in 1..Len(sent) :
          sent[i].res = "normalClose" => (dpc = "done" /\ derr = "nil" /\ NormalClose(sent[i].on)))
  /\ [][(ipc = "read" /\ NormalClose(conn) /\ ipc' # ipc)
          => (ipc' = "top" /\ stopClosed /\ UNCHANGED <<sessVars, retry>>)]_vars
  /\ [][(ipc = "top" /\ stopClosed /\ ipc' # ipc) => (ipc' = "close" /\ UNCHANGED sessVars)]_vars
  /\ [][(dpc = "write" /\ dpc' = "done") => UNCHANGED sessVars]_vars

\* C9's case: ProveLoop ended on a write that failed with errNormalClose, and
\* HandleScroll has returned from the closed session.
NormalCloseStopsWitness ==
  /\ dpc = "done"
  /\ Len(sent) = 1
  /\ sent[1].res = "normalClose"
  /\ ipc = "done"
  /\ NormalClose(conn)

\* C10 as stated: the step of HandleScroll that handles a BlockTrace Msg whose
\* payload does not unmarshal ends at the top of the loop and changes neither the
\* stack nor the session: mustRetryScroll is not entered.
PayloadErrorDropped ==
  [][(ipc = "persist" /\ imsg.wf /\ imsg.Type = BlockTrace /\ ~imsg.pwf /\ ipc' # ipc)
       => (ipc' = "top" /\ UNCHANGED <<stackVars, sessVars, retry>>)]_vars

\* HandleScroll has returned (or was never started); ProveLoop likewise.
IntakeReturned == ipc \in {"idle", "close", "closing", "done"}
DrainReturned == dpc \in {"idle", "done"}

\* C11 as stated, as far as a finite run decides it: once the stop channel is
\* closed, a loop that has not returned can still take a step towards its return,
\* in whatever state it is, mustRetryScroll included (a Dial under way is granted
\* to succeed).  A loop that cannot take a step any more never returns.
ShutdownEffective ==
  stopClosed =>
    /\ IntakeReturned \/ ipc = "dial" \/ ENABLED <<IntakeNext>>_vars
    /\ DrainReturned \/ ENABLED <<DrainNext>>_vars

\* C11's failing state: Close has returned, ProveLoop has returned, and
\* HandleScroll is registering on the session that Close closed.
ShutdownStuckWitness ==
  /\ stopClosed
  /\ \A c \in Closers : cpc[c] = "idle"
  /\ dpc = "done"
  /\ ipc = "register"
  /\ NormalClose(conn)
  /\ ~ENABLED RegisterOk

\* C12: a WriteMessage of prove that fails with an error other than errNormalClose
\* takes ProveLoop to the top of its loop with that error, having handed one
\* frame to WriteMessage; the step changes neither the stack nor Roller.conn.
\* From there the loop goes on to its next Pop (it returns only when the stop
\* channel is closed) without touching the stack, and no step of ProveLoop ever
\* adds to the stack or assigns Roller.conn.
WriteErrorContinues ==
  /\ [](derr = "writeErr" => (dpc = "top" /\ Len(sent) = 1 /\ sent[1].res = "writeErr"
                                /\ ENABLED DrainSelect))
  /\ [][(dpc = "write" /\ dpc' # dpc /\ derr' = "writeErr")
          => (dpc' = "top" /\ UNCHANGED <<stackVars, sessVars>>)]_vars
  /\ [][(dpc = "top" /\ derr = "writeErr" /\ dpc' # dpc)
          => ((dpc' = "pop" \/ stopClosed) /\ UNCHANGED <<stackVars, sessVars>>)]_vars
  /\ [][dpc' # dpc => (Len(stack') <= Len(stack) /\ UNCHANGED <<conn, connPrev>>)]_vars

\* C12's case: the write of the proof of traces 7 failed, the loop is at its top
\* and nobody has asked it to stop.
WriteErrorWitness ==
  /\ dpc = "top"
  /\ derr = "writeErr"
  /\ ditem = 7
  /\ Len(sent) = 1
  /\ ~NormalClose(sent[1].on)
  /\ ~stopClosed

\* C13 as stated: a Register frame and a Proof frame are written only on a
\* session whose write deadline was set with no frame written on it since, and a
\* read is made only on a session whose read deadline was set since its last read.
DeadlineBeforeIO ==
  /\ [][regOn' # regOn => conn \in wdl]_vars
  /\ [][Len(sent') > Len(sent) => sent'[Len(sent')].on \in wdl]_vars
  /\ [][(ipc = "read" /\ ipc' # ipc) => conn \in rdl]_vars

\* C13's failing state: Run has written the first Register frame and no
\* deadline was ever set on the session.
DeadlineMissingWitness ==
  /\ mainpc = "Loops"
  /\ ipc = "top"
  /\ dpc = "top"
  /\ regOn = {1}
  /\ wdl = {}
  /\ sent = <<>>

QueueProvenance ==
  /\ [][stack' # stack =>
          \/ /\ ipc = "persist" /\ ipc' = "top" /\ dpc' = dpc
             /\ imsg.mt = "binary" /\ imsg.wf /\ imsg.Type = BlockTrace /\ imsg.pwf
             /\ stack' = StackPush(stack, imsg.ID)
          \/ /\ dpc = "pop" /\ dpc' = "prove" /\ ipc' = ipc
             /\ stack # <<>> /\ stack' = StackPop(stack) /\ ditem' = StackTop(stack)]_vars
  /\ [](\A i \in 1..Len(stack) : stack[i] \in IDs)

\* C15's case: the traces 7 of a frame just handled are on the stack.
QueueProvenanceWitness ==
  /\ ipc = "top"
  /\ imsg = TraceFrame(7)
  /\ stack = <<7>>

\* C16 as stated: when calls of Close overlap, at most one of them passes the
\* guard on isClosed, the stop channel is closed at most once (no close of a
\* closed channel, which panics), and a session and the stack are closed at most
\* once.
CloseGuardExclusive ==
  /\ Cardinality({c \in Closers : cpc[c] # "idle"}) <= 1
  /\ closes.stop <= 1
  /\ closes.conn <= 1
  /\ closes.stack <= 1
  /\ ~panicked

\* C16's failing state: two callers passed the guard before either stored
\* isClosed, and the second close of the stop channel panicked.
CloseGuardRaceWitness ==
  /\ panicked
  /\ closes.stop = 2
  /\ cpc["ext1"] # "idle"
  /\ cpc["ext2"] # "idle"

\* The call of Close that passed the guard has returned.
CloseReturned == closes.stack >= 1

\* C17 as stated: when Close has returned and both loops have ended, the session
\* Roller.conn holds is closed; and after Close has returned mustRetryScroll is
\* not entered and no Register frame is written.
NoSessionOutlivesShutdown ==
  /\ []((CloseReturned /\ ipc = "done" /\ dpc = "done") => NormalClose(conn))
  /\ [][CloseReturned => (~(ipc # "dial" /\ ipc' = "dial") /\ regOn' = regOn)]_vars

\* C17's failing state: Close has returned, both loops have ended, and the
\* session mustRetryScroll dialed and registered is open.
SessionLeftOpenWitness ==
  /\ CloseReturned
  /\ \A c \in Closers : cpc[c] = "idle"
  /\ ipc = "done"
  /\ dpc = "done"
  /\ conn = 2
  /\ conn \in regOn
  /\ ~NormalClose(conn)

\* C18 as stated: a Proof frame is written with success only on a session on
\* which a Register frame was written before.
RegisterBeforeResult ==
  [][(Len(sent') > Len(sent) /\ sent'[Len(sent')].res = "nil")
       => sent'[Len(sent')].on \in regOn]_vars

\* C18's failing state: prove has written its frame on the session
\* mustRetryScroll has just assigned, and Register has not been written on it.
ResultBeforeRegisterWitness ==
  /\ ipc = "register"
  /\ Len(sent) = 1
  /\ sent[1].res = "nil"
  /\ sent[1].on = conn
  /\ conn \notin regOn

\* The sessions on which a WriteMessage of the goroutine of HandleScroll may be
\* under way (Register, in the second loop of mustRetryScroll), and those on
\* which the WriteMessage of prove may be (the session it reads from Roller.conn).
IntakeWriting == IF ipc = "register" THEN {conn} ELSE {}
DrainWriting == IF dpc = "write" THEN ReadConn ELSE {}

\* C19 as stated: the Register of mustRetryScroll and the WriteMessage of prove
\* are never under way on the same session.
SingleWriterPerSession ==
  IntakeWriting \cap DrainWriting = {}

\* C19's failing state: HandleScroll is in Register on the new, open session
\* while prove is at its WriteMessage.
TwoWritersWitness ==
  /\ ipc = "register"
  /\ dpc = "write"
  /\ conn = 2
  /\ ~NormalClose(conn)
  /\ ENABLED RegisterOk
  /\ ENABLED DrainWrite
====
